---------------------------- MODULE Spec2Model ----------------------------
(***************************************************************************)
(* Model of PDF_Splitter.py: the filename sanitizer, the invoice-number    *)
(* pattern extractor, the unique-name allocator, the cached OCR reader and *)
(* the split_pdf_to_zip orchestrator with its Streamlit button handler.    *)
(*                                                                         *)
(* A Python str is a sequence of one-character strings.  Code points that  *)
(* cannot be typed are written as tokens: "nbsp" is U+00A0 and "soh" is    *)
(* U+0001.  Python's None is the value None below.                         *)
(***************************************************************************)
EXTENDS Integers, Sequences, FiniteSets, TLC

VARIABLES
    sf,      \* one call of safe_filename: its arguments and its result
    ex,      \* one call of extract_tax_invoice_no: its argument and its result
    al,      \* a run of build_unique_filename calls sharing one used_names set
    inv,     \* per session thread: the frame of its split_pdf_to_zip invocation
    cache    \* st.cache_resource entry of get_ocr_reader, shared by the process

vars == <<sf, ex, al, inv, cache>>

-----------------------------------------------------------------------------
(* Characters and strings *)

None == <<"<None>">>

NBSP == "nbsp"
SOH  == "soh"

Digits == {"0", "1", "2", "3", "4", "5", "6", "7", "8", "9"}

UpperLetters == <<"A","B","C","D","E","F","G","H","I","J","K","L","M",
                  "N","O","P","Q","R","S","T","U","V","W","X","Y","Z">>
LowerLetters == <<"a","b","c","d","e","f","g","h","i","j","k","l","m",
                  "n","o","p","q","r","s","t","u","v","w","x","y","z">>

Letters == {UpperLetters[i] : i \in 1..26} \cup {LowerLetters[i] : i \in 1..26}

\* str.lower() on one character
LowerOf == [c \in {UpperLetters[i] : i \in 1..26} |->
               LowerLetters[CHOOSE i \in 1..26 : UpperLetters[i] = c]]
LowerChar(c) == IF c \in DOMAIN LowerOf THEN LowerOf[c] ELSE c

\* str.lower()
lower(s) == [i \in 1..Len(s) |-> LowerChar(s[i])]

\* what \s matches, and what str.strip() with no argument removes
Whitespace == {" ", "\t", "\n", "\r", "\f", NBSP}

\* the code points \x00-\x1F
ControlChars == {"\t", "\n", "\r", "\f", SOH}

\* the character class [<>:"/\\|?*\x00-\x1F] of safe_filename
ForbiddenChars == {"<", ">", ":", "\"", "/", "\\", "|", "?", "*"} \cup ControlChars

\* what \w matches
WordChars == Letters \cup Digits \cup {"_"}

Min(S) == CHOOSE x \in S : \A y \in S : x <= y
Max(S) == CHOOSE x \in S : \A y \in S : y <= x

\* str.strip(chars): from the first to the last character not in chars
Strip(s, chars) ==
    IF \A i \in 1..Len(s) : s[i] \in chars THEN <<>>
    ELSE LET first == CHOOSE i \in 1..Len(s) :
                         s[i] \notin chars /\ \A j \in 1..(i - 1) : s[j] \in chars
             last  == CHOOSE i \in 1..Len(s) :
                         s[i] \notin chars /\ \A j \in (i + 1)..Len(s) : s[j] \in chars
         IN  SubSeq(s, first, last)

\* the characters of s at the positions of K within lo..hi, in order
RECURSIVE Gather(_, _, _, _)
Gather(s, K, lo, hi) ==
    IF lo > hi THEN <<>>
    ELSE IF lo = hi THEN (IF lo \in K THEN <<s[lo]>> ELSE <<>>)
    ELSE LET mid == (lo + hi) \div 2
         IN  Gather(s, K, lo, mid) \o Gather(s, K, mid + 1, hi)

\* re.sub(r"[chars]", rep, s) for a one-character rep
ReplaceEach(s, chars, rep) ==
    [i \in 1..Len(s) |-> IF s[i] \in chars THEN rep ELSE s[i]]

\* re.sub(r"[chars]+", rep, s) for a one-character rep: every run of chars
\* keeps its first position, which holds rep
ReplaceRuns(s, chars, rep) ==
    LET first == {i \in 1..Len(s) : s[i] \notin chars \/ i = 1 \/ s[i - 1] \notin chars}
    IN  Gather(ReplaceEach(s, chars, rep), first, 1, Len(s))

\* re.sub(r"[chars]+", "", s)
RemoveAll(s, chars) ==
    Gather(s, {i \in 1..Len(s) : s[i] \notin chars}, 1, Len(s))

\* s[:n]
Prefix(s, n) == SubSeq(s, 1, n)

-----------------------------------------------------------------------------
(* safe_filename *)

DefaultMaxLen == 120

safe_filename(s, max_len) ==
    LET s1 == Strip(s, Whitespace)
        s2 == ReplaceEach(s1, ForbiddenChars, "_")
        s3 == ReplaceRuns(s2, Whitespace, " ")
        s4 == Strip(s3, {" ", ".", "_"})
    IN  IF Len(s4) > max_len THEN Prefix(s4, max_len) ELSE s4

-----------------------------------------------------------------------------
(* extract_tax_invoice_no *)

IsWordAt(t, i) == i >= 1 /\ i <= Len(t) /\ t[i] \in WordChars

\* \b between t[i] and t[i+1]
BoundaryAfter(t, i) == IsWordAt(t, i) # IsWordAt(t, i + 1)

\* the literal lit, ignoring case, at t[p..]: the position after it, or 0
MatchLiteral(t, p, lit) ==
    IF p >= 1 /\ p + Len(lit) - 1 <= Len(t)
       /\ \A k \in 1..Len(lit) : LowerChar(t[p + k - 1]) = LowerChar(lit[k])
    THEN p + Len(lit) ELSE 0

\* the position after the longest run of characters of chars starting at p
SkipRun(t, p, chars) ==
    Min({q \in p..(Len(t) + 1) : q = Len(t) + 1 \/ t[q] \notin chars})

\* an optional single character c at p: the position after it
SkipOptional(t, p, c) == IF p <= Len(t) /\ t[p] = c THEN p + 1 ELSE p

\* \bTax\s+Invoice\s+No\.?\s*:?\s* attempted at p: the position where the
\* capture group starts, or 0.  The classes that follow one another are
\* disjoint, so each greedy quantifier keeps all it took.
MatchLabel(t, p) ==
    LET a == MatchLiteral(t, p, <<"T","a","x">>)
        b == SkipRun(t, a, Whitespace)
        c == MatchLiteral(t, b, <<"I","n","v","o","i","c","e">>)
        d == SkipRun(t, c, Whitespace)
        e == MatchLiteral(t, d, <<"N","o">>)
        f == SkipOptional(t, e, ".")
        g == SkipRun(t, f, Whitespace)
        h == SkipOptional(t, g, ":")
    IN  IF ~BoundaryAfter(t, p - 1) \/ a = 0 THEN 0
        ELSE IF b = a THEN 0
        ELSE IF c = 0 THEN 0
        ELSE IF d = c THEN 0
        ELSE IF e = 0 THEN 0
        ELSE SkipRun(t, h, Whitespace)

\* ([0-9][0-9\s]{3,})\b with the group starting at g: the last position of
\* the group (greedy, backing off to the longest end followed by \b), or 0
MatchGroup(t, g) ==
    IF g = 0 \/ g > Len(t) \/ t[g] \notin Digits THEN 0
    ELSE LET r    == SkipRun(t, g + 1, Digits \cup Whitespace) - 1
             ends == {e \in (g + 3)..r : BoundaryAfter(t, e)}
         IN  IF ends = {} THEN 0 ELSE Max(ends)

\* re.search: the text of group 1 of the leftmost match, or None
SearchInvoiceNo(t) ==
    LET hits == {p \in 1..Len(t) : MatchGroup(t, MatchLabel(t, p)) # 0}
    IN  IF hits = {} THEN None
        ELSE LET g == MatchLabel(t, Min(hits))
             IN  SubSeq(t, g, MatchGroup(t, g))

\* str.isdigit()
isdigit(s) == s # <<>> /\ \A i \in 1..Len(s) : s[i] \in Digits

extract_tax_invoice_no(text) ==
    LET t1 == ReplaceEach(text, {NBSP}, " ")
        t2 == ReplaceRuns(t1, {" ", "\t"}, " ")
        m  == SearchInvoiceNo(t2)
    IN  IF m = None THEN None
        ELSE LET digits == RemoveAll(m, Whitespace)
             IN  IF isdigit(digits) THEN digits ELSE None

-----------------------------------------------------------------------------
(* build_unique_filename *)

DigitChars == <<"0", "1", "2", "3", "4", "5", "6", "7", "8", "9">>

\* str(n) for n >= 0
RECURSIVE Decimal(_)
Decimal(n) ==
    IF n < 10 THEN <<DigitChars[n + 1]>>
    ELSE Decimal(n \div 10) \o <<DigitChars[(n % 10) + 1]>>

\* f"{n:02d}"
Pad2(n) == IF n < 10 THEN <<"0">> \o Decimal(n) ELSE Decimal(n)

DotPdf == <<".", "p", "d", "f">>

\* the allocator without used_names.add(key)
build_unique_filename_NoAdd(base, used_names, page_num) ==
    LET b        == safe_filename(base, DefaultMaxLen)
        filename == b \o DotPdf
        suffixed == b \o <<"_", "_", "p">> \o Pad2(page_num) \o DotPdf
    IN  IF lower(filename) \in used_names
        THEN [filename |-> suffixed, used_names |-> used_names]
        ELSE [filename |-> filename, used_names |-> used_names]

\* the allocator formatting the ordinal with {page_num} instead of {page_num:02d}
build_unique_filename_Unpadded(base, used_names, page_num) ==
    LET b        == safe_filename(base, DefaultMaxLen)
        filename == b \o DotPdf
        key      == lower(filename)
        suffixed == b \o <<"_", "_", "p">> \o Decimal(page_num) \o DotPdf
    IN  IF key \in used_names
        THEN [filename |-> suffixed, used_names |-> used_names \cup {lower(suffixed)}]
        ELSE [filename |-> filename, used_names |-> used_names \cup {key}]

\* the function's result and the set it leaves behind
build_unique_filename(base, used_names, page_num) ==
    LET b        == safe_filename(base, DefaultMaxLen)
        filename == b \o DotPdf
        key      == lower(filename)
        suffixed == b \o <<"_", "_", "p">> \o Pad2(page_num) \o DotPdf
    IN  IF key \in used_names
        THEN [filename |-> suffixed, used_names |-> used_names \cup {lower(suffixed)}]
        ELSE [filename |-> filename, used_names |-> used_names \cup {key}]

-----------------------------------------------------------------------------
(* Bounds and input sets of the helper specifications *)

MaxLabelLen == 4
MaxTailLen == 5
MaxAllocCalls == 3
MaxAllocPage == 3

SeqsUpTo(S, n) == UNION {[1..k -> S] : k \in 0..n}

SafeAlphabet == {"a", " ", ".", "_", "/", "\t", NBSP}
SafeLabels == SeqsUpTo(SafeAlphabet, MaxLabelLen)
SafeMaxLens == (0..MaxLabelLen) \cup {DefaultMaxLen}

LabelForms ==
    { <<"T","a","x"," ","I","n","v","o","i","c","e"," ","N","o",":"," ">>,
      <<"T","A","X"," ","I","N","V","O","I","C","E"," ","N","O",".">>,
      <<"x"," ","t","a","x","\t","\t","i","n","v","o","i","c","e","\n","n","o">>,
      <<"T","a","x"," ","I","n","v","o","i","c","e"," ">> }
TailAlphabet == {"7", " ", "\n", "x", NBSP}
ExtractTexts ==
    {pre \o tl : pre \in LabelForms, tl \in SeqsUpTo(TailAlphabet, MaxTailLen)}

AllocLabels ==
    { <<"1","0","0","7">>,
      <<"1","0","0","7","_","_","p","0","3">>,
      <<"I","n","v">>,
      <<"i","n","v",".">>,
      <<"u","n","m","a","t","c","h","e","d","_","p","a","g","e","_","0","2">> }

SfOff == [pc |-> "off", s |-> <<>>, max_len |-> 0, out |-> None]
ExOff == [pc |-> "off", text |-> <<>>, out |-> None]
AlOff == [pc |-> "off", used_names |-> {}, calls |-> <<>>]
InvOff == <<>>
CacheOff == [value |-> 0, lock |-> 0, constructed |-> 0, built |-> 0]

-----------------------------------------------------------------------------
(* One call of safe_filename *)

InitSafe ==
    /\ sf \in [pc : {"call"}, s : SafeLabels, max_len : SafeMaxLens, out : {None}]
    /\ ex = ExOff /\ al = AlOff /\ inv = InvOff /\ cache = CacheOff

SafeFilenameCall ==
    /\ sf.pc = "call"
    /\ sf' = [sf EXCEPT !.pc = "return", !.out = safe_filename(sf.s, sf.max_len)]
    /\ UNCHANGED <<ex, al, inv, cache>>

SpecSafe == InitSafe /\ [][SafeFilenameCall]_vars

(* One call of extract_tax_invoice_no *)

InitExtract ==
    /\ ex \in [pc : {"call"}, text : ExtractTexts, out : {None}]
    /\ sf = SfOff /\ al = AlOff /\ inv = InvOff /\ cache = CacheOff

ExtractCall ==
    /\ ex.pc = "call"
    /\ ex' = [ex EXCEPT !.pc = "return", !.out = extract_tax_invoice_no(ex.text)]
    /\ UNCHANGED <<sf, al, inv, cache>>

SpecExtract == InitExtract /\ [][ExtractCall]_vars

(* A run of build_unique_filename calls on one used_names set *)

InitAlloc ==
    /\ al = [pc |-> "calls", used_names |-> {}, calls |-> <<>>]
    /\ sf = SfOff /\ ex = ExOff /\ inv = InvOff /\ cache = CacheOff

BuildUniqueFilenameCall ==
    /\ al.pc = "calls"
    /\ Len(al.calls) < MaxAllocCalls
    /\ \E base \in AllocLabels, page_num \in 1..MaxAllocPage :
          /\ \A k \in 1..Len(al.calls) : al.calls[k].page_num # page_num
          /\ LET r == build_unique_filename(base, al.used_names, page_num)
             IN  al' = [al EXCEPT
                          !.used_names = r.used_names,
                          !.calls = Append(@, [base |-> base, page_num |-> page_num,
                                               filename |-> r.filename,
                                               before |-> al.used_names,
                                               after |-> r.used_names])]
    /\ UNCHANGED <<sf, ex, inv, cache>>

SpecAlloc == InitAlloc /\ [][BuildUniqueFilenameCall]_vars

-----------------------------------------------------------------------------
(* Documents: what each page yields to the text-layer reader (page.extract_text)
   and to the recognizer (ocr_page_image) *)

MaxPages == 3
MaxRuns == 1
MaxConcRuns == 2

\* a digit run one longer than safe_filename keeps
LongRun == DefaultMaxLen + 1

Sevens(n) == [k \in 1..n |-> "7"]

TxtInv1007 ==
    <<"T","a","x"," ","I","n","v","o","i","c","e"," ","N","o",":"," ","1","0","0","7">>
TxtInv1007Spaced ==
    <<"T","A","X"," ","I","N","V","O","I","C","E"," ","N","O","."," ","1"," ","0"," ","0"," ","7">>
TxtInv2468 ==
    <<"T","o","t","a","l","\n","T","a","x"," ","I","n","v","o","i","c","e"," ","N","o"," ","2","4","6","8","\n">>
TxtNoLabel == <<"T","o","t","a","l"," ","1","2">>
TxtLong(n) ==
    <<"T","a","x"," ","I","n","v","o","i","c","e"," ","N","o",":">> \o Sevens(n)

\* the kinds of page a document is made of
PageKinds ==
    [ digital  |-> [text |-> TxtInv1007, ocr |-> TxtInv1007Spaced],
      digital2 |-> [text |-> TxtInv2468, ocr |-> TxtNoLabel],
      scanned  |-> [text |-> <<>>, ocr |-> TxtInv1007Spaced],
      plain    |-> [text |-> TxtNoLabel, ocr |-> <<>>],
      long     |-> [text |-> TxtLong(LongRun), ocr |-> TxtLong(LongRun)],
      long2    |-> [text |-> TxtLong(LongRun - 1), ocr |-> TxtLong(LongRun - 1)] ]

\* extract_tax_invoice_no is pure: its value on the text-layer text and on
\* the recognized text of every kind of page
TextLayerNo == [k \in DOMAIN PageKinds |-> extract_tax_invoice_no(PageKinds[k].text)]
RecognizedNo == [k \in DOMAIN PageKinds |-> extract_tax_invoice_no(PageKinds[k].ocr)]

Documents == UNION {[1..n -> DOMAIN PageKinds] : n \in 1..MaxPages}

\* truthiness of an Optional[str]
Truthy(v) == v # None /\ v # <<>>

UnmatchedLabel(i) ==
    <<"u","n","m","a","t","c","h","e","d","_","p","a","g","e","_">> \o Pad2(i)

-----------------------------------------------------------------------------
(* split_pdf_to_zip, called from the "Split and create ZIP" button handler *)

Frame(doc, clicks) ==
    [ pc |-> "idle", doc |-> doc, clicks |-> clicks,
      skip_unmatched |-> FALSE, force_ocr |-> FALSE,
      invs |-> <<>>, any_found |-> FALSE, i |-> 0,
      used_names |-> {}, zf |-> <<>>,
      ocr_reader |-> 0, images |-> FALSE,
      zip_bytes |-> None, ui |-> "none", raised_at |-> "none" ]

Init ==
    /\ \E doc \in Documents : inv = [p \in {1} |-> Frame(doc, MaxRuns)]
    /\ cache = [value |-> 0, lock |-> 0, constructed |-> 0, built |-> 0]
    /\ sf = SfOff /\ ex = ExOff /\ al = AlOff

Others(p) == UNCHANGED <<sf, ex, al>>

\* lines 204-210 and 118-124: the click, the fresh buffer and name set
Start(p) ==
    /\ inv[p].pc \in {"idle", "done", "failed"}
    /\ inv[p].clicks > 0
    /\ \E skip \in BOOLEAN, force \in BOOLEAN :
          inv' = [inv EXCEPT ![p] =
                    [Frame(inv[p].doc, inv[p].clicks - 1) EXCEPT
                        !.skip_unmatched = skip, !.force_ocr = force,
                        !.pc = IF force THEN "decide" ELSE "plumber"]]
    /\ UNCHANGED cache /\ Others(p)

\* lines 60-64: one iteration of the loop over pdf.pages
PlumberPage(p) ==
    /\ inv[p].pc = "plumber"
    /\ LET k    == Len(inv[p].invs) + 1
           invs == Append(inv[p].invs, TextLayerNo[inv[p].doc[k]])
       IN  inv' = [inv EXCEPT ![p].invs = invs,
                              ![p].pc = IF k = Len(inv[p].doc) THEN "decide" ELSE "plumber"]
    /\ UNCHANGED cache /\ Others(p)

\* the decision taken on "the text pass returned a list" instead of any(invs)
Decide_NonEmpty(p) ==
    /\ inv[p].pc = "decide"
    /\ LET any_found == Len(inv[p].invs) > 0
       IN  inv' = [inv EXCEPT ![p].any_found = any_found,
                              ![p].pc = IF any_found /\ ~inv[p].force_ocr
                                        THEN "pypdf" ELSE "get_ocr_reader"]
    /\ UNCHANGED cache /\ Others(p)

\* the decision taken on all(invs) instead of any(invs)
Decide_All(p) ==
    /\ inv[p].pc = "decide"
    /\ LET any_found == /\ Len(inv[p].invs) > 0
                        /\ \A k \in 1..Len(inv[p].invs) : Truthy(inv[p].invs[k])
       IN  inv' = [inv EXCEPT ![p].any_found = any_found,
                              ![p].pc = IF any_found /\ ~inv[p].force_ocr
                                        THEN "pypdf" ELSE "get_ocr_reader"]
    /\ UNCHANGED cache /\ Others(p)

\* lines 126-129 and 151
Decide(p) ==
    /\ inv[p].pc = "decide"
    /\ LET any_found == \E k \in 1..Len(inv[p].invs) : Truthy(inv[p].invs[k])
       IN  inv' = [inv EXCEPT ![p].any_found = any_found,
                              ![p].pc = IF any_found /\ ~inv[p].force_ocr
                                        THEN "pypdf" ELSE "get_ocr_reader"]
    /\ UNCHANGED cache /\ Others(p)

\* line 131
PdfReaderOpen(p) ==
    /\ inv[p].pc = "pypdf"
    /\ inv' = [inv EXCEPT ![p].pc = "text_page", ![p].i = 1]
    /\ UNCHANGED cache /\ Others(p)

\* the emission without the "if not inv_no and skip_unmatched: continue"
Emit_NeverSkips(f, inv_no, path, next) ==
    LET base == IF Truthy(inv_no) THEN inv_no ELSE UnmatchedLabel(f.i)
        r    == build_unique_filename(base, f.used_names, f.i)
    IN  [f EXCEPT !.i = f.i + 1, !.pc = next,
                  !.used_names = r.used_names,
                  !.zf = Append(@, [filename |-> r.filename,
                                    page |-> f.i, path |-> path])]

\* lines 136-140/149 and 160-166: skip the page, or name it and write it
Emit(f, inv_no, path, next) ==
    IF ~Truthy(inv_no) /\ f.skip_unmatched
    THEN [f EXCEPT !.i = f.i + 1, !.pc = next]
    ELSE LET base == IF Truthy(inv_no) THEN inv_no ELSE UnmatchedLabel(f.i)
             r    == build_unique_filename(base, f.used_names, f.i)
         IN  [f EXCEPT !.i = f.i + 1, !.pc = next,
                       !.used_names = r.used_names,
                       !.zf = Append(@, [filename |-> r.filename,
                                         page |-> f.i, path |-> path])]

\* lines 133-149: one iteration of the loop over reader.pages
TextPage(p) ==
    /\ inv[p].pc = "text_page"
    /\ LET f      == inv[p]
           inv_no == IF f.i - 1 < Len(f.invs) THEN f.invs[f.i] ELSE None
           next   == IF f.i = Len(f.doc) THEN "return" ELSE "text_page"
       IN  inv' = [inv EXCEPT ![p] = Emit(f, inv_no, "text", next)]
    /\ UNCHANGED cache /\ Others(p)

\* lines 67-68, 153: the cached function is called and the cache is read
CacheRead(p) ==
    /\ inv[p].pc = "get_ocr_reader"
    /\ inv' = [inv EXCEPT
                 ![p].ocr_reader = cache.value,
                 ![p].pc = IF cache.value # 0 THEN "rasterize" ELSE "lock_wait"]
    /\ UNCHANGED cache /\ Others(p)

\* a cache that takes the lock and computes without reading the cache again
CacheLock_NoRecheck(p) ==
    /\ inv[p].pc = "lock_wait"
    /\ cache.lock = 0
    /\ inv' = [inv EXCEPT ![p].pc = "construct"]
    /\ cache' = [cache EXCEPT !.lock = p]
    /\ Others(p)

\* line 67: on a miss the compute lock is taken and the cache is read again
CacheLock(p) ==
    /\ inv[p].pc = "lock_wait"
    /\ cache.lock = 0
    /\ IF cache.value # 0
       THEN /\ inv' = [inv EXCEPT ![p].ocr_reader = cache.value, ![p].pc = "rasterize"]
            /\ UNCHANGED cache
       ELSE /\ inv' = [inv EXCEPT ![p].pc = "construct"]
            /\ cache' = [cache EXCEPT !.lock = p]
    /\ Others(p)

\* line 70: easyocr.Reader(...) returns; the result is stored, the lock released
Construct(p) ==
    /\ inv[p].pc = "construct"
    /\ cache' = [value |-> cache.constructed + 1, lock |-> 0,
                 constructed |-> cache.constructed + 1, built |-> cache.built + 1]
    /\ inv' = [inv EXCEPT ![p].ocr_reader = cache.constructed + 1,
                          ![p].pc = "rasterize"]
    /\ Others(p)

\* line 70: easyocr.Reader(...) raises; nothing is stored, the lock released
ConstructRaises(p) ==
    /\ inv[p].pc = "construct"
    /\ cache' = [cache EXCEPT !.lock = 0, !.constructed = @ + 1]
    /\ inv' = [inv EXCEPT ![p].pc = "failed", ![p].ui = "error",
                          ![p].raised_at = "construct"]
    /\ Others(p)

\* line 154
Rasterize(p) ==
    /\ inv[p].pc = "rasterize"
    /\ inv' = [inv EXCEPT ![p].images = TRUE, ![p].pc = "ocr_page", ![p].i = 1]
    /\ UNCHANGED cache /\ Others(p)

\* lines 156-166: one iteration of the loop over images
OcrPage(p) ==
    /\ inv[p].pc = "ocr_page"
    /\ LET f      == inv[p]
           inv_no == RecognizedNo[f.doc[f.i]]
           next   == IF f.i = Len(f.doc) THEN "return" ELSE "ocr_page"
       IN  inv' = [inv EXCEPT ![p] = Emit(f, inv_no, "ocr", next)]
    /\ UNCHANGED cache /\ Others(p)

\* lines 168-169 and 211-217: the bytes are returned and offered for download
Return(p) ==
    /\ inv[p].pc = "return"
    /\ inv' = [inv EXCEPT ![p].zip_bytes = inv[p].zf, ![p].ui = "download",
                          ![p].pc = "done"]
    /\ UNCHANGED cache /\ Others(p)

\* the calls into pdfplumber, pypdf, pdf2image and easyocr that may raise
RaisingPcs == {"plumber", "pypdf", "text_page", "rasterize", "ocr_page"}

\* a text-layer failure caught inside split_pdf_to_zip and answered by OCR
Raise_FallsBackToOcr(p) ==
    /\ inv[p].pc \in RaisingPcs
    /\ inv' = [inv EXCEPT
                 ![p].pc = IF inv[p].pc = "plumber" THEN "get_ocr_reader" ELSE "failed",
                 ![p].ui = IF inv[p].pc = "plumber" THEN @ ELSE "error",
                 ![p].raised_at = inv[p].pc]
    /\ UNCHANGED cache /\ Others(p)

\* lines 218-219: an exception leaves split_pdf_to_zip and is shown by st.error
Raise(p) ==
    /\ inv[p].pc \in RaisingPcs
    /\ inv' = [inv EXCEPT ![p].pc = "failed", ![p].ui = "error",
                          ![p].raised_at = inv[p].pc]
    /\ UNCHANGED cache /\ Others(p)

Next ==
    \/ \E p \in DOMAIN inv : Start(p)
    \/ \E p \in DOMAIN inv : PlumberPage(p)
    \/ \E p \in DOMAIN inv : Decide(p)
    \/ \E p \in DOMAIN inv : PdfReaderOpen(p)
    \/ \E p \in DOMAIN inv : TextPage(p)
    \/ \E p \in DOMAIN inv : CacheRead(p)
    \/ \E p \in DOMAIN inv : CacheLock(p)
    \/ \E p \in DOMAIN inv : Construct(p)
    \/ \E p \in DOMAIN inv : ConstructRaises(p)
    \/ \E p \in DOMAIN inv : Rasterize(p)
    \/ \E p \in DOMAIN inv : OcrPage(p)
    \/ \E p \in DOMAIN inv : Return(p)
    \/ \E p \in DOMAIN inv : Raise(p)

Spec == Init /\ [][Next]_vars

(* Two browser sessions of one process, each with its own upload *)

ConcDocuments == { <<"scanned">>, <<"scanned", "plain">>, <<"digital">> }

InitConc ==
    /\ \E d1 \in ConcDocuments, d2 \in ConcDocuments :
          inv = [p \in {1, 2} |-> IF p = 1 THEN Frame(d1, MaxConcRuns) ELSE Frame(d2, MaxConcRuns)]
    /\ cache = [value |-> 0, lock |-> 0, constructed |-> 0, built |-> 0]
    /\ sf = SfOff /\ ex = ExOff /\ al = AlOff

SpecConc == InitConc /\ [][Next]_vars

-----------------------------------------------------------------------------
(* What the properties speak about *)

Procs == DOMAIN inv

\* the frames whose invocation returned its archive
Returned(p) == inv[p].pc = "done"

\* the strategy the flags and the document's text layer call for
TextLayerMatch(doc) == \E k \in 1..Len(doc) : TextLayerNo[doc[k]] # None
SelectedPath(f) ==
    IF f.force_ocr \/ ~TextLayerMatch(f.doc) THEN "ocr" ELSE "text"

\* the invoice number page k yields under the selected strategy
ProducedNo(f, k) ==
    IF SelectedPath(f) = "text" THEN TextLayerNo[f.doc[k]]
    ELSE RecognizedNo[f.doc[k]]

\* a page ordinal below 100 as two digits
TwoDigits(n) == <<DigitChars[(n \div 10) + 1], DigitChars[(n % 10) + 1]>>

PlainName(label) == label \o <<".", "p", "d", "f">>
SuffixedName(label, n) ==
    label \o <<"_", "_", "p">> \o TwoDigits(n) \o <<".", "p", "d", "f">>

\* the first 120 characters of an invoice number
Kept(n) == IF Len(n) > DefaultMaxLen THEN SubSeq(n, 1, DefaultMaxLen) ELSE n

EntryOf(a, k) == {j \in 1..Len(a) : a[j].page = k}
NameOf(a, k) == a[CHOOSE j \in EntryOf(a, k) : TRUE].filename

\* the characters safe_filename strips from both edges
EdgeChars == {" ", ".", "_"}

-----------------------------------------------------------------------------
(* Properties *)

\* C1: the archive of one split_pdf_to_zip invocation never holds two entries
\* whose filenames are equal when compared without regard to case.
C1_NoCaseInsensitiveDuplicate ==
    \A p \in Procs :
        LET keys == [j \in 1..Len(inv[p].zf) |-> lower(inv[p].zf[j].filename)]
        IN  \A j, k \in 1..Len(inv[p].zf) : j < k => keys[j] # keys[k]

\* a returned archive in which three pages produced one invoice number
C1_Witness ==
    \E p \in Procs :
        /\ Returned(p)
        /\ Len(inv[p].zip_bytes) = 3
        /\ \A k \in 1..3 : ProducedNo(inv[p], k) = ProducedNo(inv[p], 1)
        /\ ProducedNo(inv[p], 1) # None

\* C2 as stated: of the emitted pages that produce the same invoice number N,
\* the lowest is written as "N.pdf", every later page p as "N__p<pp>.pdf",
\* and each of them is in the archive.
C2_SameNumberNamedByN ==
    \A p \in Procs :
        Returned(p) =>
            \A k \in 1..Len(inv[p].doc) :
                LET f     == inv[p]
                    n     == ProducedNo(f, k)
                    same  == {m \in 1..Len(f.doc) : ProducedNo(f, m) = n}
                IN  (n # None /\ Cardinality(same) > 1) =>
                        /\ EntryOf(f.zip_bytes, k) # {}
                        /\ NameOf(f.zip_bytes, k) =
                              IF \A m \in same : k <= m
                              THEN PlainName(n) ELSE SuffixedName(n, k)

\* C2 amended: of the emitted pages whose invoice numbers agree on their
\* first 120 characters B, the lowest is written as "B.pdf", every later
\* page p as "B__p<pp>.pdf", and each of them is in the archive.
C2_SameLabelNamedByKept ==
    \A p \in Procs :
        Returned(p) =>
            \A k \in 1..Len(inv[p].doc) :
                LET f     == inv[p]
                    n     == ProducedNo(f, k)
                    same  == {m \in 1..Len(f.doc) :
                                 /\ ProducedNo(f, m) # None
                                 /\ Kept(ProducedNo(f, m)) = Kept(n)}
                IN  (n # None /\ Cardinality(same) > 1) =>
                        /\ EntryOf(f.zip_bytes, k) # {}
                        /\ NameOf(f.zip_bytes, k) =
                              IF \A m \in same : k <= m
                              THEN PlainName(Kept(n)) ELSE SuffixedName(Kept(n), k)

\* a returned archive with two pages of the same short invoice number and
\* two pages whose long numbers differ but agree on the first 120 characters
C2_Witness ==
    \E p \in Procs :
        /\ Returned(p)
        /\ Len(inv[p].zip_bytes) = Len(inv[p].doc)
        /\ \E j, k \in 1..Len(inv[p].doc) :
              /\ j < k
              /\ ProducedNo(inv[p], j) # None
              /\ ProducedNo(inv[p], j) # ProducedNo(inv[p], k)
              /\ ProducedNo(inv[p], k) # None
              /\ Kept(ProducedNo(inv[p], j)) = Kept(ProducedNo(inv[p], k))
              /\ inv[p].zip_bytes[k].filename =
                    SuffixedName(Kept(ProducedNo(inv[p], k)), k)

\* C3: with skip_unmatched the archive holds exactly one entry per page that
\* produced a match and none for the others; without it exactly one entry per
\* page, an unmatched page p being named "unmatched_page_<pp>.pdf".
C3_OneEntryPerEmittedPage ==
    \A p \in Procs :
        Returned(p) =>
            LET f == inv[p]
                a == f.zip_bytes
            IN  /\ \A k \in 1..Len(f.doc) :
                      Cardinality(EntryOf(a, k)) =
                          IF ProducedNo(f, k) # None \/ ~f.skip_unmatched THEN 1 ELSE 0
                /\ \A j \in 1..Len(a) : a[j].page \in 1..Len(f.doc)
                /\ \A k \in 1..Len(f.doc) :
                      (~f.skip_unmatched /\ ProducedNo(f, k) = None) =>
                          NameOf(a, k) =
                              <<"u","n","m","a","t","c","h","e","d","_","p","a","g","e","_">>
                              \o TwoDigits(k) \o <<".", "p", "d", "f">>

\* a three-page document whose second page has no match, split with
\* skip_unmatched: pages 1 and 3 are the archive
C3_Witness ==
    \E p \in Procs :
        /\ Returned(p)
        /\ inv[p].skip_unmatched
        /\ Len(inv[p].doc) = 3
        /\ ProducedNo(inv[p], 2) = None
        /\ Len(inv[p].zip_bytes) = 2
        /\ inv[p].zip_bytes[1].page = 1 /\ inv[p].zip_bytes[2].page = 3

\* C4: every entry ever written comes from the optical path when force_ocr is
\* set or no page has a text-layer match, and from the text-layer path
\* otherwise; so no archive mixes the two.
C4_AllOrNothingPath ==
    \A p \in Procs :
        \A j \in 1..Len(inv[p].zf) : inv[p].zf[j].path = SelectedPath(inv[p])

\* without force_ocr, a document with no text-layer match returned with more
\* than one entry, all optical
C4_Witness ==
    \E p \in Procs :
        /\ Returned(p)
        /\ ~inv[p].force_ocr
        /\ Len(inv[p].zip_bytes) >= 2
        /\ \A j \in 1..Len(inv[p].zip_bytes) : inv[p].zip_bytes[j].path = "ocr"

\* C5 as stated: whatever extract_tax_invoice_no returns is a string of at
\* least four digit characters.
C5_AtLeastFourDigits ==
    (ex.pc = "return" /\ ex.out # None) =>
        /\ Len(ex.out) >= 4
        /\ \A i \in 1..Len(ex.out) : ex.out[i] \in Digits

\* C6: once a step of an invocation has raised, the invocation is failed, the
\* caller shows the error and holds no archive bytes, whatever was already
\* written; a failure of the text-layer reader leaves the optical strategy
\* untouched; and a failed invocation does nothing more until the next click.
C6_FailureIsWhole ==
    /\ [](\A p \in Procs :
            inv[p].raised_at # "none" =>
                /\ inv[p].pc = "failed"
                /\ inv[p].ui = "error"
                /\ inv[p].zip_bytes = None
                /\ inv[p].raised_at \in {"plumber", "pypdf", "text_page"} =>
                      (inv[p].ocr_reader = 0 /\ ~inv[p].images))
    /\ [][\A p \in Procs :
            inv[p].pc = "failed" =>
                \/ inv'[p] = inv[p]
                \/ inv'[p].clicks = inv[p].clicks - 1]_vars

\* recognition raised after an entry had been written
C6_Witness ==
    \E p \in Procs :
        /\ inv[p].pc = "failed"
        /\ inv[p].raised_at = "ocr_page"
        /\ Len(inv[p].zf) > 0

\* C7 as stated: the engine constructor runs at most once in the process.
C7_ConstructorRunsOnce == cache.constructed <= 1

\* C7 amended: the engine constructor completes at most once in the process
\* (a construction that raises stores nothing, and the next call runs the
\* constructor again), and every invocation that holds an engine holds the
\* cached one.
C7_OneEngine ==
    /\ cache.built <= 1
    /\ \A p \in Procs : inv[p].ocr_reader \in {0, cache.value}

\* both sessions hold the engine, one of them in its second invocation
C7_Witness ==
    /\ \A p \in Procs : inv[p].ocr_reader # 0
    /\ \E p \in Procs : inv[p].clicks = MaxConcRuns - 2 /\ inv[p].pc = "ocr_page"
    /\ \E p \in Procs : inv[p].clicks = MaxConcRuns - 1 /\ inv[p].pc = "ocr_page"

\* C8 as stated: over calls with pairwise distinct page ordinals on one
\* used_names set, the returned names are pairwise distinct without regard
\* to case, and each call adds the lower-cased name it returns to the set.
C8_ReturnedNamesUnique ==
    /\ \A j, k \in 1..Len(al.calls) :
          j # k => lower(al.calls[j].filename) # lower(al.calls[k].filename)
    /\ \A j \in 1..Len(al.calls) :
          al.calls[j].after = al.calls[j].before \cup {lower(al.calls[j].filename)}

\* C9 as stated: the string safe_filename returns neither begins nor ends
\* with a space, a period or an underscore.
C9_EdgesStripped ==
    (sf.pc = "return" /\ sf.out # <<>>) =>
        /\ sf.out[1] \notin EdgeChars
        /\ sf.out[Len(sf.out)] \notin EdgeChars

\* C10: without force_ocr, the engine is asked for and pages are rasterized
\* or recognized only when the text-layer reader has been through every page
\* and none matched; when some page matched, none of that ever happens.
OcrPcs == {"get_ocr_reader", "lock_wait", "construct", "rasterize", "ocr_page"}
OcrTouched(f) ==
    \/ f.pc \in OcrPcs
    \/ f.raised_at \in OcrPcs
    \/ f.ocr_reader # 0
    \/ f.images
    \/ \E j \in 1..Len(f.zf) : f.zf[j].path = "ocr"

C10_OcrOnlyAfterFullTextPass ==
    \A p \in Procs :
        ~inv[p].force_ocr =>
            /\ OcrTouched(inv[p]) =>
                  /\ Len(inv[p].invs) = Len(inv[p].doc)
                  /\ ~TextLayerMatch(inv[p].doc)
            /\ (\E k \in 1..Len(inv[p].invs) : inv[p].invs[k] # None) =>
                  ~OcrTouched(inv[p])

\* the text layer of a multi-page document gave nothing and a page has been
\* recognized
C10_Witness ==
    \E p \in Procs :
        /\ ~inv[p].force_ocr
        /\ Len(inv[p].doc) >= 2
        /\ inv[p].pc = "ocr_page"
        /\ inv[p].i >= 2

=============================================================================
